---- MODULE Spec2Model ----
(***************************************************************************)
(* State-machine model of the signal-detection and risk-sizing engine of   *)
(* live_trading_enhanced:                                                  *)
(*   src/core/risk_manager.py   EnhancedRiskManager, PositionRisk,         *)
(*                              RiskParameters                             *)
(*   src/core/strategy.py       TradingStrategy                            *)
(*   src/ui/symbol_widget.py    SymbolWidget (timer-driven evaluation)     *)
(*                                                                         *)
(* Number conventions (Python floats are modelled in fixed point):         *)
(*   prices, ATR values        integer ticks, one tick = 1/PriceScale      *)
(*   lot sizes                 integer hundredths of a lot (0.1 lot = 10)  *)
(*   money (balance, pnl)      integer account-currency units              *)
(*   percentages               integer percent                             *)
(*   NaN                       the sentinel NaN, absorbed by arithmetic    *)
(*                             and failing every ordered comparison        *)
(*   Optional[float]           << >> for None, <<v>> for a value           *)
(***************************************************************************)
EXTENDS Integers, Sequences, FiniteSets, TLC

VARIABLES
    \* ---- EnhancedRiskManager (risk_manager.py:55-58)
    parameters,       \* self.parameters : RiskParameters
    daily_pnl,        \* self.daily_pnl
    trades_today,     \* self.trades_today
    open_positions,   \* self.open_positions : list of references to PositionRisk objects
    \* ---- the PositionRisk objects the callers hold (Python objects, by reference)
    heap,             \* object id -> PositionRisk record, or NoObject
    \* ---- the last call on the engine
    ret,              \* its return value
    raised,           \* TRUE iff it raised an exception
    \* ---- settings outside RiskParameters (config/settings.py)
    settings,
    \* ---- observers (history, not program state)
    side_at_open,     \* object id -> "long" | "short" | "flat" | "none": side when created
    stage,            \* object id -> "none" | "proposed" | "open" | "closed": what the calls made of it
    removed_pnl,      \* sum of the pnl of the closes that removed a position, since the last reset
    pnl_today,        \* sum of the pnl of all closes since the last trading-day boundary
    opened_today,     \* number of on_trade_opened calls since the last trading-day boundary
    \* ---- TradingStrategy (strategy.py:21-30)
    df,               \* self.df : the candle window (derived columns are functions of it)
    config,           \* self.config
    \* ---- SymbolWidget (symbol_widget.py:28-34) and the broker it drives
    trading_active,   \* self.trading_active
    strategy_set,     \* self.strategy is not None
    acted,            \* observer: orders placed since the strategy's window last changed
    orders,           \* number of mt5_client.place_order calls made so far
    error_occurred,   \* the message the last handler emitted on error_occurred, "" if none
    evaluated,        \* observer: the last handler called strategy.check_signals()
    \* ---- callers that share one engine
    pc                \* proposer -> "idle" | "allowed" | "denied": its last check_daily_limits

engineVars   == <<parameters, daily_pnl, trades_today, open_positions, ret, raised, settings>>
historyVars  == <<side_at_open, stage, removed_pnl, pnl_today, opened_today>>
strategyVars == <<df, config>>
widgetVars   == <<trading_active, strategy_set, acted, orders, error_occurred,
                  evaluated>>
proposerVars == <<pc>>
vars == <<engineVars, heap, historyVars, strategyVars, widgetVars, proposerVars>>

----------------------------------------------------------------------------
(* Bounds of the model *)

MaxPrice == 4          \* prices and current prices range over 0..MaxPrice ticks
MaxAtr == 2            \* ATR values range over 0..MaxAtr ticks
MaxOpen == 3           \* open_positions is explored up to this length
MaxTrades == 3         \* trades_today is explored up to this value
MaxPnlSteps == 2       \* |daily_pnl| is explored up to MaxPnlSteps losses/gains
MaxOrders == 3         \* broker orders are counted up to this value

----------------------------------------------------------------------------
(* Python values *)

NaN == 0 - 999999
None == << >>
Some(v) == <<v>>
IsNone(x) == x = None
Val(x) == x[1]

IsNaN(x) == x = NaN
FAdd(a, b) == IF IsNaN(a) \/ IsNaN(b) THEN NaN ELSE a + b
FSub(a, b) == IF IsNaN(a) \/ IsNaN(b) THEN NaN ELSE a - b
FMul(a, b) == IF IsNaN(a) \/ IsNaN(b) THEN NaN ELSE a * b
FLt(a, b) == ~IsNaN(a) /\ ~IsNaN(b) /\ a < b
FGt(a, b) == ~IsNaN(a) /\ ~IsNaN(b) /\ a > b
FGe(a, b) == ~IsNaN(a) /\ ~IsNaN(b) /\ a >= b
FAbs(a) == IF IsNaN(a) THEN NaN ELSE IF a < 0 THEN -a ELSE a
PyMax(a, b) == IF FGt(b, a) THEN b ELSE a
\* Python's min(a, b): b when b < a, otherwise a
PyMin(a, b) == IF FLt(b, a) THEN b ELSE a

----------------------------------------------------------------------------
(* risk_manager.py: RiskParameters, PositionRisk *)

PriceDigits == 4       \* one tick is 10^-4 of a price unit (the non-JPY pip)
LotDigits == 2         \* one lot unit is 10^-2 lot
DefaultMinLot == 10    \* 0.1 lot, the fallback position size
LotCeiling == 10000    \* 100 lots: the largest max_position_size the settings accept

\* RiskParameters with the dataclass defaults (balance in money, sizes in lot units)
DefaultRiskParameters ==
    [account_balance |-> 10000, risk_per_trade |-> 1, max_position_size |-> 1000,
     max_daily_drawdown |-> 5, daily_loss_limit |-> 2, use_atr |-> TRUE,
     atr_period |-> 14, atr_multiplier |-> 2, default_risk_reward |-> 2,
     max_open_positions |-> 10]

Symbols == {"EURUSD", "USDJPY"}

\* 'JPY' in symbol
HasJPY(symbol) == symbol \in {"USDJPY"}

\* _calculate_pip_value, in ticks: 0.01 for JPY pairs, 0.0001 otherwise
calculate_pip_value(symbol, price) == IF HasJPY(symbol) THEN 100 ELSE 1

\* floor(a * 10^e / d) for d > 0, saturating at +-LotCeiling (the result is only
\* ever used under min(., max_position_size) with max_position_size <= LotCeiling)
RECURSIVE Quot(_, _, _)
Quot(a, e, d) ==
    IF IsNaN(a) \/ IsNaN(d) THEN NaN
    ELSE IF a \div d >= LotCeiling THEN LotCeiling
    ELSE IF a \div d < -LotCeiling THEN -LotCeiling
    ELSE IF e = 0 THEN a \div d
    ELSE Quot(a * 10, e - 1, d)

\* (balance * account_risk) / 100.0
Percent(balance, pct) == IF IsNaN(balance) \/ IsNaN(pct) THEN NaN ELSE (balance * pct) \div 100

\* a ratio a / b (b # 0) in hundredths
Ratio(a, b) == IF IsNaN(a) \/ IsNaN(b) THEN NaN ELSE (a * 100) \div b

\* EnhancedRiskManager.calculate_position_size: the PositionRisk it returns
calculate_position_size(params, symbol, entry_price, stop_loss, account_risk_arg, atr_value) ==
    LET account_risk == IF IsNone(account_risk_arg) THEN params.risk_per_trade
                        ELSE Val(account_risk_arg)
        risk_amount == Percent(params.account_balance, account_risk)
        position_size ==
            IF ~IsNone(atr_value) /\ params.use_atr
            THEN LET stop_distance == FMul(Val(atr_value), params.atr_multiplier)
                     pip_value == calculate_pip_value(symbol, entry_price)
                     risk_per_lot == FMul(FMul(stop_distance, pip_value), 10)
                 IN  IF FGt(risk_per_lot, 0)
                     THEN PyMin(Quot(risk_amount, 2 * PriceDigits + LotDigits, risk_per_lot),
                                params.max_position_size)
                     ELSE DefaultMinLot
            ELSE LET risk_per_share == FAbs(FSub(entry_price, stop_loss))
                 IN  IF FGt(risk_per_share, 0)
                     THEN PyMin(Quot(risk_amount, PriceDigits + LotDigits, risk_per_share),
                                params.max_position_size)
                     ELSE DefaultMinLot
        take_profit ==
            IF FGt(entry_price, stop_loss)
            THEN FAdd(entry_price, FMul(FSub(entry_price, stop_loss), params.default_risk_reward))
            ELSE FSub(entry_price, FMul(FSub(stop_loss, entry_price), params.default_risk_reward))
    IN  [symbol |-> symbol,
         entry_price |-> entry_price,
         position_size |-> position_size,
         stop_loss |-> stop_loss,
         take_profit |-> take_profit,
         risk_amount |-> risk_amount,
         reward_amount |-> FMul(risk_amount, params.default_risk_reward),
         risk_reward_ratio |-> Ratio(params.default_risk_reward, 1),
         atr_value |-> atr_value,
         pip_value |-> None,
         margin_required |-> None]

\* variant of adjust_trailing_stop that reports an adjustment on every call
adjust_trailing_stop_always_reporting(params, position, current_price, atr_arg) ==
    LET atr_value == IF IsNone(atr_arg) THEN 0 ELSE Val(atr_arg)
        distance == FMul(atr_value, params.atr_multiplier)
        new_stop == IF FLt(position.entry_price, position.stop_loss)
                    THEN FAdd(current_price, distance)
                    ELSE FSub(current_price, distance)
        moves == IF FLt(position.entry_price, position.stop_loss)
                 THEN FLt(new_stop, position.stop_loss)
                 ELSE FGt(new_stop, position.stop_loss)
    IN  [position |-> IF moves THEN [position EXCEPT !.stop_loss = new_stop] ELSE position,
         ret |-> TRUE]

\* EnhancedRiskManager.adjust_trailing_stop: the position after the call and the
\* value returned
adjust_trailing_stop(params, position, current_price, atr_arg) ==
    LET atr_value == IF IsNone(atr_arg)
                     THEN (IF IsNone(position.atr_value) \/ position.atr_value = Some(0)
                           THEN 0 ELSE Val(position.atr_value))
                     ELSE Val(atr_arg)
    IN  IF FLt(position.entry_price, position.stop_loss)
        THEN LET new_stop == FAdd(current_price, FMul(atr_value, params.atr_multiplier))
             IN  IF FLt(new_stop, position.stop_loss)
                 THEN [position |-> [position EXCEPT !.stop_loss = new_stop], ret |-> TRUE]
                 ELSE [position |-> position, ret |-> FALSE]
        ELSE LET new_stop == FSub(current_price, FMul(atr_value, params.atr_multiplier))
             IN  IF FGt(new_stop, position.stop_loss)
                 THEN [position |-> [position EXCEPT !.stop_loss = new_stop], ret |-> TRUE]
                 ELSE [position |-> position, ret |-> FALSE]

\* variant of check_daily_limits: the loss comparison is strict (> instead of >=)
check_daily_limits_strict(params, pnl, positions) ==
    IF pnl < 0 /\ (IF pnl < 0 THEN -pnl ELSE pnl) * 100
                      > params.account_balance * params.daily_loss_limit
    THEN [can_trade |-> FALSE,
          reason |-> [text |-> "Daily loss limit of {}% reached",
                      value |-> params.daily_loss_limit]]
    ELSE IF Len(positions) >= params.max_open_positions
    THEN [can_trade |-> FALSE,
          reason |-> [text |-> "Maximum open positions ({}) reached",
                      value |-> params.max_open_positions]]
    ELSE [can_trade |-> TRUE, reason |-> [text |-> "", value |-> 0]]

\* variant of update_position that also pulls the stop to the current price
update_position_moving_stop(position, current_price) ==
    [position EXCEPT
        !.risk_amount = FMul(FSub(current_price, position.entry_price),
                             position.position_size),
        !.stop_loss = current_price]

\* EnhancedRiskManager.update_position: the position after the call (its
\* risk_amount and reward_amount become price distance times position size)
update_position(position, current_price) ==
    LET short == FLt(position.entry_price, position.stop_loss)
        risk_amount ==
            IF short
            THEN FMul(FSub(position.entry_price, current_price), position.position_size)
            ELSE FMul(FSub(current_price, position.entry_price), position.position_size)
        reward_amount ==
            IF short
            THEN FMul(FSub(position.entry_price, position.take_profit), position.position_size)
            ELSE FMul(FSub(position.take_profit, position.entry_price), position.position_size)
        updated == [position EXCEPT !.risk_amount = risk_amount,
                                    !.reward_amount = reward_amount]
    IN  IF risk_amount # 0
        THEN [updated EXCEPT !.risk_reward_ratio = FAbs(Ratio(reward_amount, risk_amount))]
        ELSE updated

\* the empty reason string ""
NoReason == [text |-> "", value |-> 0]

\* EnhancedRiskManager.check_daily_limits: (can_trade, reason); the reason is the
\* f-string's fixed text with the number it interpolates
check_daily_limits(params, pnl, positions) ==
    IF pnl < 0 /\ (IF pnl < 0 THEN -pnl ELSE pnl) * 100
                      >= params.account_balance * params.daily_loss_limit
    THEN [can_trade |-> FALSE,
          reason |-> [text |-> "Daily loss limit of {}% reached",
                      value |-> params.daily_loss_limit]]
    ELSE IF Len(positions) >= params.max_open_positions
    THEN [can_trade |-> FALSE,
          reason |-> [text |-> "Maximum open positions ({}) reached",
                      value |-> params.max_open_positions]]
    ELSE [can_trade |-> TRUE, reason |-> NoReason]

\* position in self.open_positions: dataclass equality compares the fields
Contains(positions, hp, p) == \E i \in 1..Len(positions) : hp[positions[i]] = hp[p]

\* list.remove(x): drops the first element equal to x
FirstIndex(positions, hp, p) ==
    CHOOSE i \in 1..Len(positions) :
        /\ hp[positions[i]] = hp[p]
        /\ \A j \in 1..(i - 1) : hp[positions[j]] # hp[p]

RemoveAt(s, i) == SubSeq(s, 1, i - 1) \o SubSeq(s, i + 1, Len(s))

\* variant of on_trade_opened that does not append a position already listed
on_trade_opened_once(positions, trades, p) ==
    [open_positions |-> IF \E i \in 1..Len(positions) : positions[i] = p
                        THEN positions ELSE Append(positions, p),
     trades_today |-> trades + 1]

\* EnhancedRiskManager.on_trade_opened: the engine fields it writes
on_trade_opened(positions, trades, p) ==
    [open_positions |-> Append(positions, p), trades_today |-> trades + 1]

\* variant of on_trade_closed: list.remove without the membership test, which
\* raises ValueError for an absent position before daily_pnl is updated
on_trade_closed_unguarded(positions, pnl_acc, hp, p, pnl) ==
    IF Contains(positions, hp, p)
    THEN [open_positions |-> RemoveAt(positions, FirstIndex(positions, hp, p)),
          daily_pnl |-> pnl_acc + pnl,
          raised |-> FALSE]
    ELSE [open_positions |-> positions, daily_pnl |-> pnl_acc, raised |-> TRUE]

\* EnhancedRiskManager.on_trade_closed: the engine fields it writes, and whether
\* list.remove raised ValueError
on_trade_closed(positions, pnl_acc, hp, p, pnl) ==
    [open_positions |-> IF Contains(positions, hp, p)
                        THEN RemoveAt(positions, FirstIndex(positions, hp, p))
                        ELSE positions,
     daily_pnl |-> pnl_acc + pnl,
     raised |-> FALSE]

\* variant of _reset_daily_stats that zeroes daily_pnl only
reset_daily_stats_pnl_only == [daily_pnl |-> 0, trades_today |-> trades_today]

\* sum(f(pos) for pos in self.open_positions), for the fields risk_amount and
\* margin_required or 0
RECURSIVE TotalRisk(_, _)
TotalRisk(positions, hp) ==
    IF positions = << >> THEN 0
    ELSE FAdd(hp[Head(positions)].risk_amount, TotalRisk(Tail(positions), hp))

RECURSIVE TotalMargin(_, _)
TotalMargin(positions, hp) ==
    IF positions = << >> THEN 0
    ELSE FAdd(IF IsNone(hp[Head(positions)].margin_required)
                 \/ hp[Head(positions)].margin_required = Some(0)
              THEN 0 ELSE Val(hp[Head(positions)].margin_required),
              TotalMargin(Tail(positions), hp))

\* EnhancedRiskManager.get_risk_summary: the dict it returns
get_risk_summary(params, pnl, trades, positions, hp) ==
    [open_positions |-> Len(positions),
     total_risk |-> TotalRisk(positions, hp),
     total_margin |-> TotalMargin(positions, hp),
     daily_pnl |-> pnl,
     trades_today |-> trades,
     account_balance |-> params.account_balance,
     equity |-> params.account_balance + pnl]

\* EnhancedRiskManager._reset_daily_stats: the engine fields it writes
reset_daily_stats == [daily_pnl |-> 0, trades_today |-> 0]

----------------------------------------------------------------------------
(* strategy.py: TradingStrategy.  self.df is a sequence of candles           *)
(* [open, high, low, close, volume], index 1 the oldest; the columns that    *)
(* _calculate_indicators and check_signals derive are operators of it.       *)

OrderBlockLookback == 20   \* default of _identify_order_blocks' lookback
DefaultSmcPeriod == 20     \* self.config.get('smc_period', 20)
DefaultSmcResponse == 7    \* self.config.get('smc_response', 7)

\* _get_default_config: the entries the engine reads; smc_period and
\* smc_response are absent from the defaults and read with config.get
get_default_config ==
    [ma_period |-> 20, atr_period |-> 14, rsi_period |-> 14,
     use_order_blocks |-> TRUE, use_liquidity |-> TRUE, lot_size |-> 10,
     smc_period |-> DefaultSmcPeriod, smc_response |-> DefaultSmcResponse]

SetMax(S) == CHOOSE x \in S : \A y \in S : x >= y
SetMin(S) == CHOOSE x \in S : \A y \in S : x <= y
Max2(a, b) == IF a >= b THEN a ELSE b

RECURSIVE SumOver(_, _, _)
SumOver(col, lo, hi) == IF lo > hi THEN 0 ELSE col[hi] + SumOver(col, lo, hi - 1)

Highs(d) == [i \in 1..Len(d) |-> d[i].high]
Lows(d) == [i \in 1..Len(d) |-> d[i].low]
Closes(d) == [i \in 1..Len(d) |-> d[i].close]
Opens(d) == [i \in 1..Len(d) |-> d[i].open]
Volumes(d) == [i \in 1..Len(d) |-> d[i].volume]

\* Series.max() / Series.min() over the index set I: NaN entries are skipped
NanMax(col, I) ==
    LET S == {col[i] : i \in {j \in I : ~IsNaN(col[j])}}
    IN  IF S = {} THEN NaN ELSE SetMax(S)
NanMin(col, I) ==
    LET S == {col[i] : i \in {j \in I : ~IsNaN(col[j])}}
    IN  IF S = {} THEN NaN ELSE SetMin(S)

\* col.rolling(w).max() / .min() at index i: NaN until w observations exist
RollingMax(col, w, i) ==
    IF i < w \/ \E j \in (i - w + 1)..i : IsNaN(col[j]) THEN NaN
    ELSE SetMax({col[j] : j \in (i - w + 1)..i})
RollingMin(col, w, i) ==
    IF i < w \/ \E j \in (i - w + 1)..i : IsNaN(col[j]) THEN NaN
    ELSE SetMin({col[j] : j \in (i - w + 1)..i})

\* col.rolling(w).mean() at index i, rounded down to a tick
RollingMean(col, w, i) ==
    IF i < w \/ \E j \in (i - w + 1)..i : IsNaN(col[j]) THEN NaN
    ELSE SumOver(col, i - w + 1, i) \div w

\* col.rolling(2*prd+1, center=True).apply(x[prd] if x[prd] == max(x) else nan)
\* variant of the pivot column over the trailing window of 2*prd+1 rows
PivotHighTrailing(col, prd, i) ==
    IF i - 2 * prd < 1 THEN NaN
    ELSE IF col[i] = SetMax({col[j] : j \in (i - 2 * prd)..i}) THEN col[i] ELSE NaN
PivotHigh(col, prd, i) ==
    IF i - prd < 1 \/ i + prd > Len(col) THEN NaN
    ELSE IF col[i] = SetMax({col[j] : j \in (i - prd)..(i + prd)}) THEN col[i] ELSE NaN
PivotLow(col, prd, i) ==
    IF i - prd < 1 \/ i + prd > Len(col) THEN NaN
    ELSE IF col[i] = SetMin({col[j] : j \in (i - prd)..(i + prd)}) THEN col[i] ELSE NaN

\* _true_range at index i: the row-wise max skips the NaN of the first row
true_range(d, i) ==
    LET tr1 == d[i].high - d[i].low
    IN  IF i = 1 THEN tr1
        ELSE Max2(tr1, Max2(FAbs(d[i].high - d[i - 1].close),
                            FAbs(d[i].low - d[i - 1].close)))

TrueRanges(d) == [i \in 1..Len(d) |-> true_range(d, i)]

\* df['atr'] at index i
AtrAt(d, cfg, i) == RollingMean(TrueRanges(d), cfg.atr_period, i)

\* _identify_trend at index i: -1 wherever ma_fast > ma_slow is not true
identify_trend(d, cfg, i) ==
    IF FGt(RollingMean(Closes(d), cfg.ma_period, i),
           RollingMean(Closes(d), cfg.ma_period * 2, i)) THEN 1 ELSE -1

\* _identify_order_blocks at index k: the loop visits i = lookback .. len-1
\* (0-based) and marks i-1; here i is 1-based, the bar after k
identify_order_blocks_from_start(d, lookback, k) ==
    LET i == k + 1
        visited == i <= Len(d) /\ k >= 1
    IN  IF visited /\ d[k].close > d[k].open /\ d[i].close < d[i].open
                   /\ d[i].close < d[k].low
        THEN -1
        ELSE IF visited /\ d[k].close < d[k].open /\ d[i].close > d[i].open
                        /\ d[i].close > d[k].high
        THEN 1
        ELSE 0

identify_order_blocks(d, lookback, k) ==
    LET i == k + 1
        visited == i >= lookback + 1 /\ i <= Len(d) /\ k >= 1
    IN  IF visited /\ d[k].close > d[k].open /\ d[i].close < d[i].open
                   /\ d[i].close < d[k].low
        THEN -1
        ELSE IF visited /\ d[k].close < d[k].open /\ d[i].close > d[i].open
                        /\ d[i].close > d[k].high
        THEN 1
        ELSE 0

\* 'order_blocks' in df: the column exists when _calculate_indicators ran past
\* the empty-frame return with use_order_blocks set
HasOrderBlocks(d, cfg) == Len(d) > 0 /\ cfg.use_order_blocks

\* _calculate_indicators: the 'trend' and 'order_blocks' columns self.df has
\* after it ran (None: no such column); only the empty frame returns early
calculate_indicators(d, cfg) ==
    IF Len(d) = 0 THEN [trend |-> None, order_blocks |-> None]
    ELSE [trend |-> Some([i \in 1..Len(d) |-> identify_trend(d, cfg, i)]),
          order_blocks |->
              IF cfg.use_order_blocks
              THEN Some([k \in 1..Len(d) |->
                            identify_order_blocks(d, OrderBlockLookback, k)])
              ELSE None]

\* the rows df.iloc[-resp:] selects
LastRows(n, resp) == IF resp <= 0 \/ resp >= n THEN 1..n ELSE (n - resp + 1)..n

\* the guards of check_signals that return None before any rule is read
HasEnoughBars(d, cfg) ==
    /\ Len(d) > 0
    /\ Len(d) >= Max2(cfg.ma_period * 2, cfg.atr_period)
    /\ Len(d) - 1 >= 2 * cfg.smc_period

\* df['Up'], df['Dn'] of check_signals
UpColumn(d, cfg) == [i \in 1..Len(d) |-> RollingMax(Highs(d), cfg.smc_period, i)]
DnColumn(d, cfg) == [i \in 1..Len(d) |-> RollingMin(Lows(d), cfg.smc_period, i)]

\* last_up, last_dn of check_signals
LastUp(d, cfg) == NanMax(UpColumn(d, cfg), LastRows(Len(d), cfg.smc_response))
LastDn(d, cfg) == NanMin(DnColumn(d, cfg), LastRows(Len(d), cfg.smc_response))

\* df['volume'].iloc[-1] > df['volume'].iloc[-resp:].mean()
VolumeAboveMean(d, cfg) ==
    LET rows == LastRows(Len(d), cfg.smc_response)
    IN  d[Len(d)].volume * Cardinality(rows)
            > SumOver(Volumes(d), SetMin(rows), SetMax(rows))

\* the condition of each rule of check_signals, read on the latest bar
RuleHolds(rule, d, cfg) ==
    LET n == Len(d)
    IN  CASE rule = "CHoCH_buy" ->
                /\ ~IsNaN(PivotHigh(Highs(d), cfg.smc_period, n))
                /\ FGt(d[n].high, UpColumn(d, cfg)[n - 1])
          [] rule = "CHoCH_sell" ->
                /\ ~IsNaN(PivotLow(Lows(d), cfg.smc_period, n))
                /\ FLt(d[n].low, DnColumn(d, cfg)[n - 1])
          [] rule = "SMS_buy" ->
                FGt(d[n].close, LastUp(d, cfg)) /\ VolumeAboveMean(d, cfg)
          [] rule = "SMS_sell" ->
                FLt(d[n].close, LastDn(d, cfg)) /\ VolumeAboveMean(d, cfg)
          [] rule = "order_block" ->
                /\ cfg.use_order_blocks
                /\ HasOrderBlocks(d, cfg)
                /\ identify_order_blocks(d, OrderBlockLookback, n) # 0

\* the dict each rule returns: the base signal updated with the rule's entries
\* (confidence in hundredths)
RuleSignal(rule, symbol, d, cfg) ==
    LET n == Len(d)
        close == d[n].close
        atr == AtrAt(d, cfg, n)
        block == identify_order_blocks(d, OrderBlockLookback, n)
        Signal(action, type, confidence, stop_loss, take_profit) ==
            [symbol |-> symbol, timestamp |-> n, price |-> close,
             volume |-> d[n].volume, atr |-> atr,
             action |-> action, type |-> type, confidence |-> confidence,
             entry_price |-> close, stop_loss |-> stop_loss,
             take_profit |-> take_profit]
    IN  CASE rule = "CHoCH_buy" ->
                Signal("buy", "CHoCH", 80, FSub(d[n].low, atr),
                       FAdd(close, FMul(atr, 2)))
          [] rule = "CHoCH_sell" ->
                Signal("sell", "CHoCH", 80, FAdd(d[n].high, atr),
                       FSub(close, FMul(atr, 2)))
          [] rule = "SMS_buy" ->
                Signal("buy", "SMS", 70, LastDn(d, cfg),
                       FAdd(close, FSub(close, LastDn(d, cfg))))
          [] rule = "SMS_sell" ->
                Signal("sell", "SMS", 70, LastUp(d, cfg),
                       FSub(close, FSub(LastUp(d, cfg), close)))
          [] rule = "order_block" ->
                Signal(IF block > 0 THEN "buy" ELSE "sell", "order_block", 75,
                       IF block > 0 THEN FSub(d[n].low, atr)
                                    ELSE FAdd(d[n].high, atr),
                       IF block > 0 THEN FAdd(close, FMul(atr, 2))
                                    ELSE FSub(close, FMul(atr, 2)))

\* check_signals with the two SMS rules read in the opposite order
check_signals_sell_first(symbol, d, cfg) ==
    IF ~HasEnoughBars(d, cfg) THEN None
    ELSE IF RuleHolds("CHoCH_buy", d, cfg)
         THEN Some(RuleSignal("CHoCH_buy", symbol, d, cfg))
    ELSE IF RuleHolds("CHoCH_sell", d, cfg)
         THEN Some(RuleSignal("CHoCH_sell", symbol, d, cfg))
    ELSE IF RuleHolds("SMS_sell", d, cfg)
         THEN Some(RuleSignal("SMS_sell", symbol, d, cfg))
    ELSE IF RuleHolds("SMS_buy", d, cfg)
         THEN Some(RuleSignal("SMS_buy", symbol, d, cfg))
    ELSE IF RuleHolds("order_block", d, cfg)
         THEN Some(RuleSignal("order_block", symbol, d, cfg))
    ELSE None

\* variant of check_signals without the latest_idx < 2*prd return
check_signals_without_index_guard(symbol, d, cfg) ==
    IF Len(d) = 0 \/ Len(d) < Max2(cfg.ma_period * 2, cfg.atr_period) THEN None
    ELSE IF RuleHolds("CHoCH_buy", d, cfg)
         THEN Some(RuleSignal("CHoCH_buy", symbol, d, cfg))
    ELSE IF RuleHolds("CHoCH_sell", d, cfg)
         THEN Some(RuleSignal("CHoCH_sell", symbol, d, cfg))
    ELSE IF RuleHolds("SMS_buy", d, cfg)
         THEN Some(RuleSignal("SMS_buy", symbol, d, cfg))
    ELSE IF RuleHolds("SMS_sell", d, cfg)
         THEN Some(RuleSignal("SMS_sell", symbol, d, cfg))
    ELSE IF RuleHolds("order_block", d, cfg)
         THEN Some(RuleSignal("order_block", symbol, d, cfg))
    ELSE None

\* check_signals: the rules are read top to bottom and the first that holds
\* returns
check_signals(symbol, d, cfg) ==
    IF ~HasEnoughBars(d, cfg) THEN None
    ELSE IF RuleHolds("CHoCH_buy", d, cfg)
         THEN Some(RuleSignal("CHoCH_buy", symbol, d, cfg))
    ELSE IF RuleHolds("CHoCH_sell", d, cfg)
         THEN Some(RuleSignal("CHoCH_sell", symbol, d, cfg))
    ELSE IF RuleHolds("SMS_buy", d, cfg)
         THEN Some(RuleSignal("SMS_buy", symbol, d, cfg))
    ELSE IF RuleHolds("SMS_sell", d, cfg)
         THEN Some(RuleSignal("SMS_sell", symbol, d, cfg))
    ELSE IF RuleHolds("order_block", d, cfg)
         THEN Some(RuleSignal("order_block", symbol, d, cfg))
    ELSE None

----------------------------------------------------------------------------
(* The engine's operations as actions.  Each writes the engine's fields, the  *)
(* return value and the exception flag; the objects and the observers are     *)
(* framed by the specification that uses the action.                          *)

Objects == {"p1", "p2", "p3"}
NoObject == [symbol |-> "none"]

\* the last call: its name, its arguments and the value it returned
Returned(call, args, value) == [call |-> call, args |-> args, value |-> value]

PnlValues == {-550, 550}
PnlCap == 550 * MaxPnlSteps

CheckDailyLimits ==
    /\ ret' = Returned("check_daily_limits", << >>,
                       check_daily_limits(parameters, daily_pnl, open_positions))
    /\ raised' = FALSE
    /\ UNCHANGED <<parameters, daily_pnl, trades_today, open_positions, settings>>

OnTradeOpened(p) ==
    /\ heap[p] # NoObject
    /\ Len(open_positions) < MaxOpen
    /\ trades_today < MaxTrades
    /\ LET w == on_trade_opened(open_positions, trades_today, p)
       IN  /\ open_positions' = w.open_positions
           /\ trades_today' = w.trades_today
    /\ ret' = Returned("on_trade_opened", <<p>>, None)
    /\ raised' = FALSE
    /\ UNCHANGED <<parameters, daily_pnl, settings>>

\* variant of on_trade_closed that also compounds the pnl into
\* parameters.account_balance
OnTradeClosedCompounding(p, pnl) ==
    /\ heap[p] # NoObject
    /\ daily_pnl + pnl <= PnlCap
    /\ daily_pnl + pnl >= -PnlCap
    /\ LET w == on_trade_closed(open_positions, daily_pnl, heap, p, pnl)
       IN  /\ open_positions' = w.open_positions
           /\ daily_pnl' = w.daily_pnl
           /\ raised' = w.raised
    /\ parameters' = [parameters EXCEPT !.account_balance = @ + pnl]
    /\ ret' = Returned("on_trade_closed", <<p, pnl>>, None)
    /\ UNCHANGED <<trades_today, settings>>

OnTradeClosed(p, pnl) ==
    /\ heap[p] # NoObject
    /\ daily_pnl + pnl <= PnlCap
    /\ daily_pnl + pnl >= -PnlCap
    /\ LET w == on_trade_closed(open_positions, daily_pnl, heap, p, pnl)
       IN  /\ open_positions' = w.open_positions
           /\ daily_pnl' = w.daily_pnl
           /\ raised' = w.raised
    /\ ret' = Returned("on_trade_closed", <<p, pnl>>, None)
    /\ UNCHANGED <<parameters, trades_today, settings>>

\* variant of _reset_daily_stats that also empties the ledger
ResetDailyStatsAndLedger ==
    /\ daily_pnl' = 0
    /\ trades_today' = 0
    /\ open_positions' = << >>
    /\ ret' = Returned("_reset_daily_stats", << >>, None)
    /\ raised' = FALSE
    /\ UNCHANGED <<parameters, settings>>

\* EnhancedRiskManager._reset_daily_stats()
ResetDailyStats ==
    /\ daily_pnl' = reset_daily_stats.daily_pnl
    /\ trades_today' = reset_daily_stats.trades_today
    /\ ret' = Returned("_reset_daily_stats", << >>, None)
    /\ raised' = FALSE
    /\ UNCHANGED <<parameters, open_positions, settings>>

GetRiskSummary ==
    /\ ret' = Returned("get_risk_summary", << >>,
                       get_risk_summary(parameters, daily_pnl, trades_today,
                                        open_positions, heap))
    /\ raised' = FALSE
    /\ UNCHANGED <<parameters, daily_pnl, trades_today, open_positions, settings>>

\* EnhancedRiskManager.__init__: empty engine, counters reset
EngineInit(params) ==
    /\ parameters = params
    /\ daily_pnl = 0
    /\ trades_today = 0
    /\ open_positions = << >>
    /\ ret = Returned("__init__", << >>, None)
    /\ raised = FALSE

----------------------------------------------------------------------------
(* Idle values of the parts a specification does not exercise *)

HistoryIdle ==
    /\ side_at_open = [o \in Objects |-> "none"]
    /\ stage = [o \in Objects |-> "none"]
    /\ removed_pnl = 0
    /\ pnl_today = 0
    /\ opened_today = 0

StrategyIdle ==
    /\ df = << >>
    /\ config = get_default_config

WidgetIdle ==
    /\ trading_active = FALSE
    /\ strategy_set = FALSE
    /\ acted = 0
    /\ orders = 0
    /\ error_occurred = ""
    /\ evaluated = FALSE

Proposers == {"q1", "q2"}

ProposersIdle == pc = [q \in Proposers |-> "idle"]

----------------------------------------------------------------------------
(* SpecRisk: the engine's bookkeeping under arbitrary call sequences *)

MaxDailyTrades == 2    \* the configured max_daily_trades explored

Balances == {10000, 11000, 12000}
LossLimits == {2, 5}
OpenLimits == {1, 2}

RiskParameterValues ==
    {[DefaultRiskParameters EXCEPT !.account_balance = b, !.daily_loss_limit = l,
                                   !.max_open_positions = m] :
        b \in Balances, l \in LossLimits, m \in OpenLimits}

\* two field-wise equal PositionRisk objects and a different one
LongPosition == calculate_position_size(DefaultRiskParameters, "EURUSD", 3, 1, None, None)
ShortPosition == calculate_position_size(DefaultRiskParameters, "EURUSD", 1, 3, None, None)
RiskHeap == [o \in Objects |-> IF o = "p3" THEN ShortPosition ELSE LongPosition]

RiskInit ==
    /\ \E params \in RiskParameterValues : EngineInit(params)
    /\ settings = [max_daily_trades |-> MaxDailyTrades]
    /\ heap = RiskHeap
    /\ HistoryIdle /\ StrategyIdle /\ WidgetIdle /\ ProposersIdle

RiskNext ==
    \/ CheckDailyLimits /\ UNCHANGED <<heap, historyVars, strategyVars, widgetVars, proposerVars>>
    \/ \E p \in Objects :
          OnTradeOpened(p) /\ UNCHANGED <<heap, historyVars, strategyVars, widgetVars, proposerVars>>
    \/ \E p \in Objects, pnl \in PnlValues :
          OnTradeClosed(p, pnl) /\ UNCHANGED <<heap, historyVars, strategyVars, widgetVars, proposerVars>>
    \/ ResetDailyStats /\ UNCHANGED <<heap, historyVars, strategyVars, widgetVars, proposerVars>>

SpecRisk == RiskInit /\ [][RiskNext]_vars

----------------------------------------------------------------------------
(* Claims about the engine's bookkeeping (SpecRisk) *)

\* C3: every new position is preceded, in the same evaluation cycle, by a
\* check_daily_limits call that returned allow: a step that appends to
\* open_positions starts in a state whose last call was check_daily_limits
\* returning can_trade = TRUE.
C3_OpenedOnlyAfterAllow ==
    [][Len(open_positions') = Len(open_positions) + 1
         => (ret.call = "check_daily_limits" /\ ret.value.can_trade)]_vars

\* C4: check_daily_limits denies exactly when the day's loss has reached
\* balance * daily_loss_limit / 100 (equality included) or the open positions
\* have reached max_open_positions; otherwise it returns (True, ""); the loss
\* reason cites the configured percentage and a non-negative daily_pnl never
\* produces it.
C4_CheckDailyLimitsExact ==
    ret.call = "check_daily_limits" =>
        LET lossReached == /\ daily_pnl < 0
                           /\ (0 - daily_pnl) * 100
                                >= parameters.account_balance * parameters.daily_loss_limit
            slotsFull == Len(open_positions) >= parameters.max_open_positions
            lossText == "Daily loss limit of {}% reached"
        IN  /\ ret.value.can_trade <=> ~(lossReached \/ slotsFull)
            /\ ret.value.can_trade => ret.value.reason = NoReason
            /\ ~ret.value.can_trade => ret.value.reason # NoReason
            /\ lossReached => /\ ret.value.reason.text = lossText
                              /\ ret.value.reason.value = parameters.daily_loss_limit
            /\ daily_pnl >= 0 => ret.value.reason.text # lossText

\* C4 witness: daily_pnl = -550 on a 10000 balance with a 5% limit is denied
\* with a reason citing 5
C4_Witness ==
    /\ ret.call = "check_daily_limits"
    /\ daily_pnl = -550
    /\ parameters.account_balance = 10000
    /\ parameters.daily_loss_limit = 5
    /\ ~ret.value.can_trade
    /\ ret.value.reason.value = 5

\* C5: once trades_today has reached the configured max_daily_trades,
\* check_daily_limits returns deny.
C5_MaxDailyTradesDenied ==
    (ret.call = "check_daily_limits" /\ trades_today >= settings.max_daily_trades)
        => ~ret.value.can_trade

\* C9: on_trade_closed never raises; with a position that is not in
\* open_positions it leaves the list unchanged, with one that is in it the
\* list loses exactly one entry equal to that position.
C9_CloseRemovesOrNoOp ==
    [][ret'.call = "on_trade_closed" =>
         LET p == ret'.args[1]
         IN  /\ ~raised'
             /\ IF \E i \in 1..Len(open_positions) : heap[open_positions[i]] = heap[p]
                THEN \E i \in 1..Len(open_positions) :
                        /\ heap[open_positions[i]] = heap[p]
                        /\ open_positions' = RemoveAt(open_positions, i)
                ELSE open_positions' = open_positions]_vars

\* C9 witness: a close of the short position while only a long one is open
\* returned without raising and left the list as it was
C9_Witness ==
    /\ ret.call = "on_trade_closed"
    /\ ret.args[1] = "p3"
    /\ ~raised
    /\ open_positions = <<"p1">>
    /\ trades_today = 1
    /\ daily_pnl = -550

\* C11: _reset_daily_stats applied twice gives what it gives applied once:
\* right after a reset daily_pnl = 0 and trades_today = 0, and these are the
\* values a further reset would write.
C11_ResetIdempotent ==
    ret.call = "_reset_daily_stats" =>
        /\ daily_pnl = 0
        /\ trades_today = 0
        /\ reset_daily_stats.daily_pnl = daily_pnl
        /\ reset_daily_stats.trades_today = trades_today

\* C11 witness: a reset that followed two openings
C11_Witness ==
    /\ ret.call = "_reset_daily_stats"
    /\ Len(open_positions) = 2
    /\ trades_today = 0
    /\ daily_pnl = 0

\* C29: _reset_daily_stats changes only daily_pnl and trades_today:
\* open_positions (its members and their order), the positions and the
\* parameters are unchanged, so the positions still open keep counting toward
\* the max_open_positions check, and len(open_positions) may then exceed
\* trades_today.
C29_ResetKeepsLedger ==
    [][ret'.call = "_reset_daily_stats" =>
         /\ open_positions' = open_positions
         /\ heap' = heap
         /\ parameters' = parameters
         /\ Len(open_positions) >= parameters.max_open_positions =>
               ~check_daily_limits(parameters', daily_pnl', open_positions').can_trade
       ]_<<daily_pnl, trades_today, open_positions, heap, parameters, ret.call>>

\* C29 witness: a check after a reset is denied for the positions opened
\* before it, with trades_today = 0 below len(open_positions)
C29_Witness ==
    /\ ret.call = "check_daily_limits"
    /\ ~ret.value.can_trade
    /\ trades_today = 0
    /\ daily_pnl = 0
    /\ Len(open_positions) >= 1
    /\ Len(open_positions) = parameters.max_open_positions

\* C30: open-position bookkeeping is exact: on_trade_opened appends the
\* position and adds 1 to trades_today, also when the position is already
\* listed; on_trade_closed removes the earliest entry field-wise equal to the
\* position when there is one and nothing otherwise, and never changes
\* trades_today; len(open_positions) is never negative.
C30_ExactBookkeeping ==
    [][/\ ret'.call = "on_trade_opened" =>
             /\ open_positions' = Append(open_positions, ret'.args[1])
             /\ Len(open_positions') = Len(open_positions) + 1
             /\ trades_today' = trades_today + 1
       /\ ret'.call = "on_trade_closed" =>
             LET p == ret'.args[1]
                 equal == {i \in 1..Len(open_positions) : heap[open_positions[i]] = heap[p]}
             IN  /\ trades_today' = trades_today
                 /\ IF equal = {}
                    THEN open_positions' = open_positions
                    ELSE /\ open_positions' = RemoveAt(open_positions, SetMin(equal))
                         /\ Len(open_positions') = Len(open_positions) - 1
       /\ Len(open_positions') >= 0
      ]_<<open_positions, trades_today, daily_pnl, ret.call, ret.args>>

\* C30 witness: three openings, then a close of p2 while an equal position
\* opened earlier is listed: the earlier entry is the one removed
C30_Witness ==
    /\ ret.call = "on_trade_closed"
    /\ ret.args[1] = "p2"
    /\ open_positions = <<"p3", "p2">>
    /\ trades_today = 3

----------------------------------------------------------------------------
(* SpecLedger: the same engine with the trading day and the observers.  A    *)
(* trading-day boundary runs no code of the engine: nothing in the           *)
(* repository calls _reset_daily_stats after __init__, and                   *)
(* check_daily_limits reads no clock.                                        *)

DayBoundary ==
    /\ pnl_today' = 0
    /\ opened_today' = 0
    /\ UNCHANGED <<engineVars, removed_pnl>>

LedgerNext ==
    \/ /\ CheckDailyLimits
       /\ UNCHANGED <<heap, historyVars, strategyVars, widgetVars, proposerVars>>
    \/ /\ \E p \in Objects : OnTradeOpened(p)
       /\ opened_today' = opened_today + 1
       /\ UNCHANGED <<heap, side_at_open, stage, removed_pnl, pnl_today, strategyVars, widgetVars, proposerVars>>
    \/ /\ \E p \in Objects, pnl \in PnlValues :
             /\ OnTradeClosed(p, pnl)
             /\ removed_pnl' = IF Contains(open_positions, heap, p)
                               THEN removed_pnl + pnl ELSE removed_pnl
             /\ pnl_today' = pnl_today + pnl
       /\ UNCHANGED <<heap, side_at_open, stage, opened_today, strategyVars, widgetVars, proposerVars>>
    \/ /\ ResetDailyStats
       /\ removed_pnl' = 0
       /\ pnl_today' = 0
       /\ opened_today' = 0
       /\ UNCHANGED <<heap, side_at_open, stage, strategyVars, widgetVars, proposerVars>>
    \/ /\ DayBoundary
       /\ UNCHANGED <<heap, side_at_open, stage, strategyVars, widgetVars, proposerVars>>

\* the spec's scenario: balance 10000, daily_loss_limit 5%
LedgerParameters ==
    [DefaultRiskParameters EXCEPT !.daily_loss_limit = 5, !.max_open_positions = 2]

LedgerInit ==
    /\ EngineInit(LedgerParameters)
    /\ settings = [max_daily_trades |-> MaxDailyTrades]
    /\ heap = RiskHeap
    /\ HistoryIdle /\ StrategyIdle /\ WidgetIdle /\ ProposersIdle

SpecLedger == LedgerInit /\ [][LedgerNext]_vars

\* C8: daily_pnl is the sum of the realized pnl of the positions removed from
\* open_positions since the last reset, each counted once; a close that
\* removes nothing adds nothing.
C8_DailyPnlIsRemovedPnl == daily_pnl = removed_pnl

\* C10: the counters are reset at each trading-day boundary: what
\* check_daily_limits evaluates is the pnl and the trades of the current
\* day only.
C10_CheckSeesTodayOnly ==
    [][(ret' # ret /\ ret'.call = "check_daily_limits") =>
         /\ daily_pnl = pnl_today
         /\ trades_today = opened_today]_vars

----------------------------------------------------------------------------
(* SpecSizing: calculate_position_size applied to every input of the sets    *)
(* below, under every parameter value of SizingParameterValues               *)

Prices == 0..MaxPrice
AtrArgs == {None} \cup {Some(a) : a \in 0..MaxAtr}
RiskArgs == {None, Some(0), Some(-1)}

\* max_position_size 0.05 lot and 10 lots, ATR sizing on and off
SizingParameterValues ==
    {[DefaultRiskParameters EXCEPT !.max_position_size = m, !.use_atr = u] :
        m \in {5, 1000}, u \in BOOLEAN}

CalculatePositionSize(o, symbol, entry_price, stop_loss, account_risk, atr_value) ==
    LET position == calculate_position_size(parameters, symbol, entry_price, stop_loss,
                                            account_risk, atr_value)
    IN  /\ heap[o] = NoObject        \* the call returns a new object
        /\ heap' = [heap EXCEPT ![o] = position]
        /\ ret' = Returned("calculate_position_size",
                           <<symbol, entry_price, stop_loss, account_risk, atr_value>>,
                           position)
        /\ raised' = FALSE
        /\ UNCHANGED <<parameters, daily_pnl, trades_today, open_positions, settings>>

SizingInit ==
    /\ \E params \in SizingParameterValues : EngineInit(params)
    /\ settings = [max_daily_trades |-> MaxDailyTrades]
    /\ heap = [o \in Objects |-> NoObject]
    /\ HistoryIdle /\ StrategyIdle /\ WidgetIdle /\ ProposersIdle

\* the inputs with the undefined value among them: an ATR is NaN for the first
\* atr_period - 1 bars of a window
\* and the prices of wider stops: 1.0950 and 1.1000 (a 50-pip stop), 15.0000
ExamplePrices == {10950, 11000, 150000}
SizingPrices == Prices \cup {NaN} \cup ExamplePrices
SizingAtrArgs == AtrArgs \cup {Some(NaN)}

SizingNext ==
    \E symbol \in Symbols, entry_price \in SizingPrices, stop_loss \in SizingPrices,
       account_risk \in RiskArgs, atr_value \in SizingAtrArgs :
        /\ CalculatePositionSize("p1", symbol, entry_price, stop_loss, account_risk, atr_value)
        /\ UNCHANGED <<historyVars, strategyVars, widgetVars, proposerVars>>

SpecSizing == SizingInit /\ [][SizingNext]_vars

\* C2: the position_size of the PositionRisk that calculate_position_size
\* returns never exceeds parameters.max_position_size, the zero-distance
\* fallback paths included.
C2_SizeWithinMax ==
    ret.call = "calculate_position_size" =>
        ret.value.position_size <= parameters.max_position_size

\* C15: for every invalid risk input (entry_price = stop_loss without ATR, an
\* ATR-based per-lot risk that is zero or negative, a risk amount that is
\* zero or negative) calculate_position_size returns the default lot size,
\* and the size it returns is never zero or negative.
C15_FallbackToDefaultLot ==
    ret.call = "calculate_position_size" =>
        LET entry_price == ret.args[2]
            stop_loss == ret.args[3]
            account_risk == IF IsNone(ret.args[4]) THEN parameters.risk_per_trade
                            ELSE Val(ret.args[4])
            atr_value == ret.args[5]
            by_atr == ~IsNone(atr_value) /\ parameters.use_atr
            defined == /\ ~IsNaN(entry_price) /\ ~IsNaN(stop_loss)
                       /\ (by_atr => ~IsNaN(Val(atr_value)))
            invalid == \/ ~by_atr /\ entry_price = stop_loss
                       \/ by_atr /\ Val(atr_value) * parameters.atr_multiplier <= 0
                       \/ parameters.account_balance * account_risk <= 0
        IN  defined =>
               /\ invalid => ret.value.position_size = DefaultMinLot
               /\ ret.value.position_size > 0

\* C16: no numeric field of the PositionRisk that calculate_position_size
\* returns is undefined, whatever the inputs, an undefined (NaN) ATR,
\* stop_loss or entry_price included.
C16_NoUndefinedValue ==
    ret.call = "calculate_position_size" =>
        /\ ~IsNaN(ret.value.position_size)
        /\ ~IsNaN(ret.value.take_profit)
        /\ ~IsNaN(ret.value.risk_amount)
        /\ ~IsNaN(ret.value.reward_amount)

\* C21 as stated: without an ATR value (or with use_atr false) the call
\* returns risk_amount = account_balance * risk_per_trade / 100 and, whenever
\* entry_price != stop_loss, position_size = min(risk_amount / |entry_price -
\* stop_loss|, max_position_size).
C21_PercentSizing ==
    (/\ ret.call = "calculate_position_size"
     /\ (IsNone(ret.args[5]) \/ ~parameters.use_atr)) =>
        LET entry_price == ret.args[2]
            stop_loss == ret.args[3]
            risk_amount == Percent(parameters.account_balance, parameters.risk_per_trade)
            per_unit == Quot(risk_amount, PriceDigits + LotDigits,
                             FAbs(FSub(entry_price, stop_loss)))
        IN  /\ ret.value.risk_amount = risk_amount
            /\ entry_price # stop_loss =>
                  ret.value.position_size =
                      IF FLt(parameters.max_position_size, per_unit)
                      THEN parameters.max_position_size ELSE per_unit

\* C21, amended: the risk percentage is the account_risk argument when one is
\* passed and risk_per_trade otherwise, and the size is the stated minimum
\* whenever entry_price and stop_loss are numbers that differ.
C21_PercentSizingOfAccountRisk ==
    (/\ ret.call = "calculate_position_size"
     /\ (IsNone(ret.args[5]) \/ ~parameters.use_atr)) =>
        LET entry_price == ret.args[2]
            stop_loss == ret.args[3]
            account_risk == IF IsNone(ret.args[4]) THEN parameters.risk_per_trade
                            ELSE Val(ret.args[4])
            risk_amount == (parameters.account_balance * account_risk) \div 100
            per_unit == Quot(risk_amount, PriceDigits + LotDigits,
                             FAbs(FSub(entry_price, stop_loss)))
        IN  /\ ret.value.risk_amount = risk_amount
            /\ (~IsNaN(entry_price) /\ ~IsNaN(stop_loss) /\ entry_price # stop_loss) =>
                  ret.value.position_size =
                      IF parameters.max_position_size < per_unit
                      THEN parameters.max_position_size ELSE per_unit

\* C21 witness: balance 10000, risk 1.0, max_position_size 10.0, entry 1.1000,
\* stop 1.0950, no ATR: risk_amount 100 and position_size 10.0
C21_Witness ==
    /\ ret.call = "calculate_position_size"
    /\ ret.args = <<"EURUSD", 11000, 10950, None, None>>
    /\ parameters.account_balance = 10000
    /\ parameters.risk_per_trade = 1
    /\ parameters.max_position_size = 1000
    /\ ret.value.risk_amount = 100
    /\ ret.value.position_size = 1000

----------------------------------------------------------------------------
(* SpecPosition: one PositionRisk, as calculate_position_size returns it,    *)
(* under arbitrary sequences of adjust_trailing_stop and update_position     *)

SideOf(position) ==
    IF position.entry_price > position.stop_loss THEN "long"
    ELSE IF position.entry_price < position.stop_loss THEN "short"
    ELSE "flat"

AdjustTrailingStop(o, current_price, atr_value) ==
    /\ heap[o] # NoObject
    /\ LET r == adjust_trailing_stop(parameters, heap[o], current_price, atr_value)
       IN  /\ heap' = [heap EXCEPT ![o] = r.position]
           /\ ret' = Returned("adjust_trailing_stop", <<o>>, r.ret)
    /\ raised' = FALSE
    /\ UNCHANGED <<parameters, daily_pnl, trades_today, open_positions, settings>>

UpdatePosition(o, current_price) ==
    /\ heap[o] # NoObject
    /\ heap' = [heap EXCEPT ![o] = update_position(heap[o], current_price)]
    /\ ret' = Returned("update_position", <<o>>, None)
    /\ raised' = FALSE
    /\ UNCHANGED <<parameters, daily_pnl, trades_today, open_positions, settings>>

PositionInit ==
    /\ EngineInit(DefaultRiskParameters)
    /\ settings = [max_daily_trades |-> MaxDailyTrades]
    /\ \E entry_price \in Prices, stop_loss \in Prices, atr_value \in AtrArgs :
          LET position == calculate_position_size(parameters, "EURUSD", entry_price,
                                                  stop_loss, None, atr_value)
          IN  /\ heap = [o \in Objects |-> IF o = "p1" THEN position ELSE NoObject]
              /\ side_at_open = [o \in Objects |->
                                    IF o = "p1" THEN SideOf(position) ELSE "none"]
    /\ stage = [o \in Objects |-> IF o = "p1" THEN "proposed" ELSE "none"]
    /\ removed_pnl = 0
    /\ pnl_today = 0
    /\ opened_today = 0
    /\ StrategyIdle /\ WidgetIdle /\ ProposersIdle

PositionNext ==
    \/ \E current_price \in Prices, atr_value \in AtrArgs :
          /\ AdjustTrailingStop("p1", current_price, atr_value)
          /\ UNCHANGED <<historyVars, strategyVars, widgetVars, proposerVars>>
    \/ \E current_price \in Prices :
          /\ UpdatePosition("p1", current_price)
          /\ UNCHANGED <<historyVars, strategyVars, widgetVars, proposerVars>>

SpecPosition == PositionInit /\ [][PositionNext]_vars

\* C1: over any sequence of adjust_trailing_stop calls the stored stop_loss
\* never decreases for a position opened as a long (entry_price > stop_loss
\* at open) and never increases for one opened as a short.
C1_TrailingStopMonotonic ==
    [][/\ side_at_open["p1"] = "long"
            => heap'["p1"].stop_loss >= heap["p1"].stop_loss
       /\ side_at_open["p1"] = "short"
            => heap'["p1"].stop_loss <= heap["p1"].stop_loss]_vars

\* C13: update_position changes only risk_amount, reward_amount and
\* risk_reward_ratio of the position it is given: the position's other fields,
\* the other objects, open_positions, daily_pnl and trades_today stay as they
\* were, for every current_price.
C13_UpdatePositionFrame ==
    [][ret'.call = "update_position" =>
         /\ \A o \in Objects :
               IF heap[o] = NoObject \/ o # ret'.args[1] THEN heap'[o] = heap[o]
               ELSE heap'[o] = [heap[o] EXCEPT
                                   !.risk_amount = heap'[o].risk_amount,
                                   !.reward_amount = heap'[o].reward_amount,
                                   !.risk_reward_ratio = heap'[o].risk_reward_ratio]
         /\ open_positions' = open_positions
         /\ daily_pnl' = daily_pnl
         /\ trades_today' = trades_today]_<<heap, open_positions, daily_pnl, trades_today>>

\* C13 witness: a long entered at 3 with its stop at 1, re-measured at price
\* 4: risk_amount and reward_amount were rewritten, the stop is still at 1
C13_Witness ==
    /\ ret.call = "update_position"
    /\ heap["p1"].entry_price = 3
    /\ heap["p1"].stop_loss = 1
    /\ heap["p1"].take_profit = 7
    /\ heap["p1"].risk_amount = 1000
    /\ heap["p1"].reward_amount = 4000
    /\ heap["p1"].risk_reward_ratio = 400

----------------------------------------------------------------------------
(* SpecEngine: every operation of the engine on one PositionRisk, from the   *)
(* calculate_position_size that proposes it to the calls that open, watch    *)
(* and close it.  stage observes what the calls made of the object.          *)

ProposalPrices == {1, 3}
TickPrices == {2, 4}

\* the object that list.remove drops is no longer in the list afterwards
StageAfterClose(p) ==
    IF Contains(open_positions, heap, p)
    THEN LET o == open_positions[FirstIndex(open_positions, heap, p)]
             rest == RemoveAt(open_positions, FirstIndex(open_positions, heap, p))
         IN  IF \E i \in 1..Len(rest) : rest[i] = o THEN stage
             ELSE [stage EXCEPT ![o] = "closed"]
    ELSE stage

EngineNext ==
    \/ /\ \E entry_price \in ProposalPrices, stop_loss \in ProposalPrices :
             CalculatePositionSize("p1", "EURUSD", entry_price, stop_loss, None, None)
       /\ stage' = [stage EXCEPT !["p1"] = "proposed"]
       /\ UNCHANGED <<side_at_open, removed_pnl, pnl_today, opened_today,
                      strategyVars, widgetVars, proposerVars>>
    \/ /\ CheckDailyLimits
       /\ UNCHANGED <<heap, historyVars, strategyVars, widgetVars, proposerVars>>
    \/ /\ OnTradeOpened("p1")
       /\ stage' = [stage EXCEPT !["p1"] = "open"]
       /\ UNCHANGED <<heap, side_at_open, removed_pnl, pnl_today, opened_today,
                      strategyVars, widgetVars, proposerVars>>
    \/ /\ \E pnl \in PnlValues : OnTradeClosed("p1", pnl)
       /\ stage' = StageAfterClose("p1")
       /\ UNCHANGED <<heap, side_at_open, removed_pnl, pnl_today, opened_today,
                      strategyVars, widgetVars, proposerVars>>
    \/ /\ \E current_price \in TickPrices : AdjustTrailingStop("p1", current_price, None)
       /\ UNCHANGED <<historyVars, strategyVars, widgetVars, proposerVars>>
    \/ /\ \E current_price \in TickPrices : UpdatePosition("p1", current_price)
       /\ UNCHANGED <<historyVars, strategyVars, widgetVars, proposerVars>>
    \/ /\ ResetDailyStats
       /\ UNCHANGED <<heap, historyVars, strategyVars, widgetVars, proposerVars>>
    \/ /\ GetRiskSummary
       /\ UNCHANGED <<heap, historyVars, strategyVars, widgetVars, proposerVars>>

EngineSpecInit ==
    /\ EngineInit(LedgerParameters)
    /\ settings = [max_daily_trades |-> MaxDailyTrades]
    /\ heap = [o \in Objects |-> NoObject]
    /\ HistoryIdle /\ StrategyIdle /\ WidgetIdle /\ ProposersIdle

SpecEngine == EngineSpecInit /\ [][EngineNext]_vars

\* C12: a position follows proposed -> open -> (adjusted)* -> closed only:
\* adjust_trailing_stop and update_position change it only while it is open,
\* a closed position stays closed, and a proposal whose check was denied is
\* not opened.
C12_LifecycleOnly ==
    [][\A o \in Objects :
          /\ (stage[o] # "none" /\ heap'[o] # heap[o]) => stage[o] = "open"
          /\ stage[o] = "closed" => stage'[o] = "closed"
          /\ (stage[o] = "proposed" /\ stage'[o] = "open")
                => ~(ret.call = "check_daily_limits" /\ ~ret.value.can_trade)]_<<heap, stage>>

\* C14: no operation of the engine changes a field of its RiskParameters.
C14_ParametersUnchanged == [][parameters' = parameters]_parameters

\* C14 witness: a summary taken after an opening and a losing close still
\* reads the parameters the engine was built with
C14_Witness ==
    /\ ret.call = "get_risk_summary"
    /\ ret.value.daily_pnl = -550
    /\ ret.value.trades_today = 1
    /\ heap["p1"] # NoObject
    /\ heap["p1"].stop_loss = 4
    /\ parameters = LedgerParameters

\* C25: adjust_trailing_stop returns True exactly when it changed the
\* position's stop_loss in that call, and in every case leaves the position's
\* other fields (take_profit, entry_price, position_size among them), the
\* other objects, open_positions, daily_pnl and trades_today as they were.
C25_AdjustReportsChange ==
    [][ret'.call = "adjust_trailing_stop" =>
         LET o == ret'.args[1]
         IN  /\ ret'.value = (heap'[o].stop_loss # heap[o].stop_loss)
             /\ heap'[o] = [heap[o] EXCEPT !.stop_loss = heap'[o].stop_loss]
             /\ \A other \in Objects \ {o} : heap'[other] = heap[other]
             /\ open_positions' = open_positions
             /\ daily_pnl' = daily_pnl
             /\ trades_today' = trades_today]_<<heap, open_positions, daily_pnl,
                                                trades_today, ret.call,
                                                ret.call = "adjust_trailing_stop"
                                                   /\ ret.value>>

\* C25 witness: an open long whose stop a call has just moved, reported as
\* True, with the position still in the ledger
C25_Witness ==
    /\ ret.call = "adjust_trailing_stop"
    /\ ret.value = TRUE
    /\ open_positions = <<"p1">>
    /\ stage["p1"] = "open"
    /\ heap["p1"].entry_price = 3
    /\ heap["p1"].stop_loss = 2
    /\ heap["p1"].take_profit = 7
    /\ trades_today = 1

\* the side adjust_trailing_stop and update_position infer for a position
InferredSide(position) ==
    IF FLt(position.entry_price, position.stop_loss) THEN "short" ELSE "long"

\* C28: the side the engine infers for a position (short iff entry_price <
\* stop_loss, long otherwise) is the same at every point between its opening
\* and its closing, under any sequence of adjust_trailing_stop and
\* update_position calls.
C28_SideStable ==
    [][\A o \in Objects :
          (stage[o] = "open" /\ stage'[o] = "open")
              => InferredSide(heap'[o]) = InferredSide(heap[o])]_<<heap, stage>>

----------------------------------------------------------------------------
(* SpecStrategy: a TradingStrategy built over a candle window, and its       *)
(* check_signals.  TradingStrategy validates no candle, so the windows       *)
(* include bars whose low lies above their high.  The periods are scaled     *)
(* from 20/14/20/7 down to 1/1/1/2 so that a window of three bars passes the *)
(* guards that 41 bars pass under the default config.                        *)

MaxBars == 3

BarOpens == {2}
BarHighs == {1, 2}
BarLows == {1, 3}
BarCloses == {1, 2}
BarVolumes == {1, 2}

Candles ==
    [open : BarOpens, high : BarHighs, low : BarLows, close : BarCloses,
     volume : BarVolumes]

Windows == UNION {[1..n -> Candles] : n \in 0..MaxBars}

StrategyConfig ==
    [get_default_config EXCEPT !.ma_period = 1, !.atr_period = 1,
                               !.smc_period = 1, !.smc_response = 2]

StrategySymbol == "EURUSD"

\* TradingStrategy.check_signals()
CheckSignals ==
    /\ ret' = Returned("check_signals", <<>>,
                       check_signals(StrategySymbol, df, config))
    /\ raised' = FALSE
    /\ UNCHANGED <<parameters, daily_pnl, trades_today, open_positions,
                   settings, df, config>>

\* TradingStrategy.__init__(symbol, df, config)
StrategyInit ==
    /\ EngineInit(DefaultRiskParameters)
    /\ heap = [o \in Objects |-> NoObject]
    /\ settings = [max_daily_trades |-> MaxDailyTrades]
    /\ df \in Windows
    /\ config = StrategyConfig
    /\ HistoryIdle /\ WidgetIdle /\ ProposersIdle

StrategyNext ==
    CheckSignals /\ UNCHANGED <<heap, historyVars, widgetVars, proposerVars>>

SpecStrategy == StrategyInit /\ [][StrategyNext]_vars

RuleOrder == <<"CHoCH_buy", "CHoCH_sell", "SMS_buy", "SMS_sell", "order_block">>

\* C7: check_signals returns None or one signal, and when several rules hold
\* on the latest bar the signal is that of the earliest of them in the order
\* CHoCH-buy, CHoCH-sell, SMS-buy, SMS-sell, order_block.
C7_FirstRuleWins ==
    ret.call = "check_signals" =>
        LET holding == {r \in 1..Len(RuleOrder) :
                           HasEnoughBars(df, config)
                           /\ RuleHolds(RuleOrder[r], df, config)}
        IN  /\ Len(ret.value) <= 1
            /\ IF holding = {} THEN ret.value = None
               ELSE ret.value = Some(RuleSignal(RuleOrder[SetMin(holding)],
                                                StrategySymbol, df, config))

C7_Witness ==
    /\ ret.call = "check_signals"
    /\ HasEnoughBars(df, config)
    /\ RuleHolds("SMS_buy", df, config)
    /\ RuleHolds("SMS_sell", df, config)
    /\ ret.value # None
    /\ Val(ret.value).type = "SMS"
    /\ Val(ret.value).action = "buy"

\* C17: on a window that is empty, has fewer than max(2*ma_period, atr_period)
\* bars, or whose last index is below 2*smc_period, building the strategy and
\* calling check_signals raises nothing and check_signals returns None.
C17_ShortWindowNoSignal ==
    (/\ ret.call = "check_signals"
     /\ \/ Len(df) = 0
        \/ Len(df) < Max2(2 * config.ma_period, config.atr_period)
        \/ Len(df) - 1 < 2 * config.smc_period)
        => (ret.value = None /\ ~raised)

\* C17 witness: a window of two bars whose last bar closes above the rolling
\* high on rising volume, which is long enough for the moving averages but
\* not for the pivots: no signal
C17_Witness ==
    /\ ret.call = "check_signals"
    /\ Len(df) = 2
    /\ Len(df) >= Max2(2 * config.ma_period, config.atr_period)
    /\ RuleHolds("SMS_buy", df, config)
    /\ ret.value = None
    /\ ~raised

\* C24: when the non-empty candle window is shorter than 2 * ma_period,
\* _calculate_indicators leaves the derived state unset: no trend and no
\* order-block value is assigned to any index (in particular no trend = -1
\* for bars whose moving averages are undefined).
C24_ShortWindowUnset ==
    (Len(df) > 0 /\ Len(df) < 2 * config.ma_period) =>
        /\ IsNone(calculate_indicators(df, config).trend)
        /\ IsNone(calculate_indicators(df, config).order_blocks)

----------------------------------------------------------------------------
(* SpecWidget: a SymbolWidget, its trading switch and its timer.             *)
(* load_symbol_data builds the strategy over the frame the broker client     *)
(* returns (taken to carry the open/high/low/close/volume columns the        *)
(* strategy reads); a refresh returns the same window, the window advanced   *)
(* by one bar, or nothing.  The strategy config is scaled as in SpecStrategy.*)

FeedCandles == {c \in Candles : c.low = 1}

FeedWindows == UNION {[1..n -> FeedCandles] : n \in 0..MaxBars}

\* the window one bar later: at most MaxBars bars are requested
Advance(d, c) == IF Len(d) < MaxBars THEN Append(d, c) ELSE Append(Tail(d), c)

NoDataError == "Error loading {}: No data available for {}"
NoPriceError == "Error placing order: Could not get current price"

\* SymbolWidget.load_symbol_data(): frame is what get_historical_data returns
LoadSymbolData(frame) ==
    /\ ret' = Returned("load_symbol_data", <<frame>>, None)
    /\ raised' = FALSE
    /\ evaluated' = FALSE
    /\ IF IsNone(frame) \/ Len(Val(frame)) = 0
       THEN \* raise Exception("No data available ..."), caught and reported
            /\ error_occurred' = NoDataError
            /\ UNCHANGED <<strategyVars, trading_active, strategy_set, acted, orders>>
       ELSE /\ df' = Val(frame)
            /\ config' = StrategyConfig
            /\ strategy_set' = TRUE
            /\ acted' = IF strategy_set /\ df = Val(frame) THEN acted ELSE 0
            /\ error_occurred' = ""
            /\ UNCHANGED <<trading_active, orders>>
    /\ UNCHANGED <<parameters, daily_pnl, trades_today, open_positions, settings>>

\* SymbolWidget.refresh_data()
RefreshData ==
    \E frame \in {None, Some(df)} \cup {Some(Advance(df, c)) : c \in FeedCandles} :
        LoadSymbolData(frame)

\* SymbolWidget.start_trading(): initialize_strategy assigns nothing
StartTrading ==
    /\ trading_active' = TRUE
    /\ ret' = Returned("start_trading", << >>, None)
    /\ raised' = FALSE
    /\ error_occurred' = ""
    /\ evaluated' = FALSE
    /\ UNCHANGED <<parameters, daily_pnl, trades_today, open_positions, settings,
                   strategyVars, strategy_set, acted, orders>>

\* SymbolWidget.stop_trading()
StopTrading ==
    /\ trading_active' = FALSE
    /\ ret' = Returned("stop_trading", << >>, None)
    /\ raised' = FALSE
    /\ error_occurred' = ""
    /\ evaluated' = FALSE
    /\ UNCHANGED <<parameters, daily_pnl, trades_today, open_positions, settings,
                   strategyVars, strategy_set, acted, orders>>

\* variant of place_order that builds the order without asking whether
\* get_live_price answered
place_order_without_tick(placed, tick) == [orders |-> placed + 1, error |-> ""]

\* SymbolWidget.place_order(order_type, volume): tick is whether
\* get_live_price answers; without one the exception is caught and reported.
\* The result is the number of broker orders and the message emitted.
place_order(placed, tick) ==
    IF tick THEN [orders |-> placed + 1, error |-> ""]
    ELSE [orders |-> placed, error |-> NoPriceError]

\* SymbolWidget.handle_strategy_signal(signal)
handle_strategy_signal(placed, sig, tick) ==
    IF sig.action = "buy" THEN place_order(placed, tick)
    ELSE IF sig.action = "sell" THEN place_order(placed, tick)
    ELSE [orders |-> placed, error |-> ""]

\* variant of update_data without the test of self.trading_active
UpdateDataWhileStopped(tick) ==
    /\ orders < MaxOrders
    /\ LET sig == check_signals(StrategySymbol, df, config)
           acts == strategy_set /\ ~IsNone(sig)
           done == IF acts THEN handle_strategy_signal(orders, Val(sig), tick)
                   ELSE [orders |-> orders, error |-> ""]
       IN  /\ orders' = done.orders
           /\ acted' = acted + (done.orders - orders)
           /\ error_occurred' = done.error
    /\ evaluated' = strategy_set
    /\ ret' = Returned("update_data", <<tick>>, None)
    /\ raised' = FALSE
    /\ UNCHANGED <<parameters, daily_pnl, trades_today, open_positions, settings,
                   strategyVars, trading_active, strategy_set>>

\* SymbolWidget.update_data(): one timer tick, of the widget's own timer or
\* of the main window's (MainWindow.update_data calls it on the current widget)
UpdateData(tick) ==
    /\ orders < MaxOrders
    /\ LET sig == check_signals(StrategySymbol, df, config)
           acts == trading_active /\ strategy_set /\ ~IsNone(sig)
           done == IF acts THEN handle_strategy_signal(orders, Val(sig), tick)
                   ELSE [orders |-> orders, error |-> ""]
       IN  /\ orders' = done.orders
           /\ acted' = acted + (done.orders - orders)
           /\ error_occurred' = done.error
    /\ evaluated' = (trading_active /\ strategy_set)
    /\ ret' = Returned("update_data", <<tick>>, None)
    /\ raised' = FALSE
    /\ UNCHANGED <<parameters, daily_pnl, trades_today, open_positions, settings,
                   strategyVars, trading_active, strategy_set>>

\* SymbolWidget.__init__: no strategy, trading off, then load_symbol_data
WidgetInit ==
    /\ EngineInit(DefaultRiskParameters)
    /\ settings = [max_daily_trades |-> MaxDailyTrades]
    /\ heap = [o \in Objects |-> NoObject]
    /\ HistoryIdle
    /\ trading_active = FALSE
    /\ orders = 0
    /\ acted = 0
    /\ evaluated = FALSE
    /\ ProposersIdle
    /\ \E frame \in {None} \cup {Some(w) : w \in FeedWindows} :
          IF IsNone(frame) \/ Len(Val(frame)) = 0
          THEN strategy_set = FALSE /\ StrategyIdle /\ error_occurred = NoDataError
          ELSE /\ strategy_set = TRUE /\ df = Val(frame) /\ config = StrategyConfig
               /\ error_occurred = ""

WidgetNext ==
    /\ \/ RefreshData
       \/ StartTrading
       \/ StopTrading
       \/ \E tick \in BOOLEAN : UpdateData(tick)
    /\ UNCHANGED <<heap, historyVars, proposerVars>>

SpecWidget == WidgetInit /\ [][WidgetNext]_vars

C19_FaultBuildsNothing ==
    [][/\ (ret'.call = "update_data" /\ ret'.args = <<FALSE>>) =>
             /\ orders' = orders
             /\ (trading_active /\ strategy_set
                   /\ ~IsNone(check_signals(StrategySymbol, df, config)))
                  => error_occurred' = NoPriceError
       /\ (ret'.call = "load_symbol_data"
             /\ (IsNone(ret'.args[1]) \/ Len(Val(ret'.args[1])) = 0)) =>
             /\ df' = df
             /\ config' = config
             /\ strategy_set' = strategy_set
             /\ error_occurred' = NoDataError]_vars

\* C19 witness: trading is on, the window gives a signal, the tick is missing:
\* the error is reported and no order has been placed
C19_Witness ==
    /\ ret.call = "update_data"
    /\ ret.args = <<FALSE>>
    /\ trading_active
    /\ strategy_set
    /\ ~IsNone(check_signals(StrategySymbol, df, config))
    /\ error_occurred = NoPriceError
    /\ orders = 0

\* C26: after stop_trading no timer tick evaluates the strategy or places a
\* signal-driven order until start_trading is called again: stop_trading
\* leaves trading off, only start_trading turns it on, and an update_data
\* while it is off calls neither check_signals nor the broker.
C26_StoppedMeansIdle ==
    [][/\ ret'.call = "stop_trading" => ~trading_active'
       /\ (~trading_active /\ trading_active') => ret'.call = "start_trading"
       /\ (~trading_active /\ ret'.call = "update_data") =>
             /\ ~evaluated'
             /\ orders' = orders
             /\ acted' = acted]_vars

\* C26 witness: an order was placed while trading was on; trading was then
\* stopped, and a tick over a window that gives a signal evaluated nothing
\* and placed nothing
C26_Witness ==
    /\ ret.call = "update_data"
    /\ ret.args = <<TRUE>>
    /\ ~trading_active
    /\ strategy_set
    /\ ~IsNone(check_signals(StrategySymbol, df, config))
    /\ ~evaluated
    /\ orders = 1

----------------------------------------------------------------------------
(* SpecProposers: one engine shared by two callers, one per symbol.  Each    *)
(* runs check_daily_limits and, if allowed, on_trade_opened; the engine has  *)
(* no lock and no method that does both, so the calls of the two interleave. *)

ProposalOf == [q \in Proposers |-> IF q = "q1" THEN "p1" ELSE "p3"]

ProposerHeap ==
    [o \in Objects |->
        IF o = "p1" THEN calculate_position_size(DefaultRiskParameters, "EURUSD", 3, 1, None, None)
        ELSE IF o = "p3" THEN calculate_position_size(DefaultRiskParameters, "USDJPY", 1, 3, None, None)
        ELSE NoObject]

\* caller q: can_trade, reason = risk_manager.check_daily_limits()
ProposerCheck(q) ==
    /\ pc[q] # "allowed"
    /\ CheckDailyLimits
    /\ pc' = [pc EXCEPT ![q] =
                 IF check_daily_limits(parameters, daily_pnl, open_positions).can_trade
                 THEN "allowed" ELSE "denied"]

\* caller q, allowed by its check: risk_manager.on_trade_opened(position)
ProposerOpen(q) ==
    /\ pc[q] = "allowed"
    /\ OnTradeOpened(ProposalOf[q])
    /\ pc' = [pc EXCEPT ![q] = "idle"]

\* caller q: risk_manager.on_trade_closed(position, pnl)
ProposerClose(q, pnl) ==
    /\ pc[q] # "allowed"
    /\ Contains(open_positions, heap, ProposalOf[q])
    /\ OnTradeClosed(ProposalOf[q], pnl)
    /\ UNCHANGED pc

ProposersInit ==
    /\ \E params \in RiskParameterValues : EngineInit(params)
    /\ settings = [max_daily_trades |-> MaxDailyTrades]
    /\ heap = ProposerHeap
    /\ HistoryIdle /\ StrategyIdle /\ WidgetIdle /\ ProposersIdle

ProposersNext ==
    /\ \/ \E q \in Proposers : ProposerCheck(q)
       \/ \E q \in Proposers : ProposerOpen(q)
       \/ \E q \in Proposers, pnl \in PnlValues : ProposerClose(q, pnl)
    /\ UNCHANGED <<heap, historyVars, strategyVars, widgetVars>>

SpecProposers == ProposersInit /\ [][ProposersNext]_vars

\* C18: with one engine shared by several symbols the limit check and the
\* opening are one atomic step: for every interleaving of two callers that
\* each run check_daily_limits then on_trade_opened, len(open_positions)
\* never exceeds max_open_positions.
C18_OpenWithinLimit == Len(open_positions) <= parameters.max_open_positions


----------------------------------------------------------------------------
(* SpecOrderBlocks: _identify_order_blocks applied to every window of at
   most MaxBars candles over three price levels, each candle with
   low <= open, close <= high, for the start indices of Lookbacks. *)

BlockLevels == {1, 2, 3}

BlockCandles ==
    {c \in [open : BlockLevels, high : BlockLevels, low : BlockLevels,
            close : BlockLevels, volume : {1}] :
        /\ c.low <= c.open /\ c.low <= c.close
        /\ c.high >= c.open /\ c.high >= c.close}

BlockWindows == UNION {[1..n -> BlockCandles] : n \in 0..MaxBars}

Lookbacks == {1, 2}

\* TradingStrategy._identify_order_blocks(df, lookback): the returned series,
\* one marker per row
IdentifyOrderBlocks(lookback) ==
    /\ ret' = Returned("_identify_order_blocks", <<lookback>>,
                       [k \in 1..Len(df) |-> identify_order_blocks(df, lookback, k)])
    /\ raised' = FALSE
    /\ UNCHANGED <<parameters, daily_pnl, trades_today, open_positions,
                   settings, df, config>>

OrderBlocksInit ==
    /\ EngineInit(DefaultRiskParameters)
    /\ heap = [o \in Objects |-> NoObject]
    /\ settings = [max_daily_trades |-> MaxDailyTrades]
    /\ df \in BlockWindows
    /\ config = get_default_config
    /\ HistoryIdle /\ WidgetIdle /\ ProposersIdle

OrderBlocksNext ==
    /\ \E lookback \in Lookbacks : IdentifyOrderBlocks(lookback)
    /\ UNCHANGED <<heap, historyVars, widgetVars, proposerVars>>

SpecOrderBlocks == OrderBlocksInit /\ [][OrderBlocksNext]_vars

\* the engulfing patterns of rows k, k+1 (1-based; row k is index i-1)
BullishBreak(d, k) ==
    /\ k + 1 <= Len(d)
    /\ d[k].close < d[k].open
    /\ d[k + 1].close > d[k + 1].open
    /\ d[k + 1].close > d[k].high

BearishBreak(d, k) ==
    /\ k + 1 <= Len(d)
    /\ d[k].close > d[k].open
    /\ d[k + 1].close < d[k + 1].open
    /\ d[k + 1].close < d[k].low

----------------------------------------------------------------------------
(* utils/indicators.py: calculate_atr, calculate_rsi.  The smoothed values
   are exact: a value v of a window of n rows is held as v * period^n. *)

RECURSIVE Pow(_, _)
Pow(b, e) == IF e = 0 THEN 1 ELSE b * Pow(b, e - 1)

\* np.maximum(a, b): NaN when either is NaN
NpMaximum(a, b) == IF IsNaN(a) \/ IsNaN(b) THEN NaN ELSE IF a >= b THEN a ELSE b

\* prev_close = np.roll(close, 1); prev_close[0] = np.nan
PrevClose(close, t) == IF t = 1 THEN NaN ELSE close[t - 1]

\* true_range of calculate_atr at row t
IndicatorTrueRange(high, low, close, t) ==
    LET tr1 == FSub(high[t], low[t])
        tr2 == FAbs(FSub(high[t], PrevClose(close, t)))
        tr3 == FAbs(FSub(low[t], PrevClose(close, t)))
    IN  NpMaximum(NpMaximum(tr1, tr2), tr3)

\* the number of observations (non-NaN rows) of x up to row t
RECURSIVE Observations(_, _)
Observations(x, t) ==
    IF t = 0 THEN 0 ELSE Observations(x, t - 1) + (IF IsNaN(x[t]) THEN 0 ELSE 1)

\* the running mean of Series.ewm(alpha=1/period, adjust=False) at row t, times
\* scale: it starts at the first observation, and every later observation x
\* replaces the mean w by (1 - alpha) * w + alpha * x
RECURSIVE EwmWeighted(_, _, _, _)
EwmWeighted(x, period, scale, t) ==
    IF t = 1 THEN FMul(x[1], scale)
    ELSE LET weighted == EwmWeighted(x, period, scale, t - 1)
         IN  IF IsNaN(weighted) THEN FMul(x[t], scale)
             ELSE IF IsNaN(x[t]) THEN weighted
             ELSE ((period - 1) * weighted + x[t] * scale) \div period

\* .ewm(alpha=1/period, min_periods=period, adjust=False).mean() at row t
EwmMean(x, period, scale, t) ==
    IF Observations(x, t) >= period THEN EwmWeighted(x, period, scale, t) ELSE NaN

\* calculate_atr(high, low, close, period): IndexError on empty arrays
\* (prev_close[0] = np.nan), otherwise the series of smoothed true ranges
calculate_atr(high, low, close, period) ==
    LET n == Len(high)
        tr == [t \in 1..n |-> IndicatorTrueRange(high, low, close, t)]
    IN  IF n = 0 THEN [raised |-> TRUE, value |-> None]
        ELSE [raised |-> FALSE,
              value |-> [t \in 1..n |-> EwmMean(tr, period, Pow(period, n), t)]]

\* delta = close.diff()
Diff(close, t) == IF t = 1 THEN NaN ELSE close[t] - close[t - 1]

\* gain = delta.where(delta > 0, 0.0); loss = -delta.where(delta < 0, 0.0)
Gain(close) == [t \in 1..Len(close) |-> IF FGt(Diff(close, t), 0) THEN Diff(close, t) ELSE 0]
Loss(close) == [t \in 1..Len(close) |-> IF FLt(Diff(close, t), 0) THEN -Diff(close, t) ELSE 0]

\* 100 - (100 / (1 + avg_gain / avg_loss)) in hundredths: 0/0 is NaN, and
\* g/0 for g > 0 is infinite, which gives 100
RsiOf(avg_gain, avg_loss) ==
    IF IsNaN(avg_gain) \/ IsNaN(avg_loss) THEN NaN
    ELSE IF avg_loss = 0 THEN (IF avg_gain = 0 THEN NaN ELSE 10000)
    ELSE (10000 * avg_gain) \div (avg_gain + avg_loss)

AvgGain(close, period, t) == EwmMean(Gain(close), period, Pow(period, Len(close)), t)
AvgLoss(close, period, t) == EwmMean(Loss(close), period, Pow(period, Len(close)), t)

\* calculate_rsi(close, period)
calculate_rsi(close, period) ==
    [raised |-> FALSE,
     value |-> [t \in 1..Len(close) |->
                   RsiOf(AvgGain(close, period, t), AvgLoss(close, period, t))]]

----------------------------------------------------------------------------
(* SpecIndicators: calculate_atr and calculate_rsi applied to the columns of
   every window of at most MaxBars rows with high >= low, for the periods of
   Periods. *)

IndicatorLevels == {1, 2, 3}

IndicatorCandles ==
    {c \in [open : {1}, high : IndicatorLevels, low : IndicatorLevels,
            close : IndicatorLevels, volume : {1}] : c.high >= c.low}

IndicatorWindows == UNION {[1..n -> IndicatorCandles] : n \in 0..MaxBars}

Periods == {1, 2, 3}

CalculateAtr(period) ==
    LET r == calculate_atr(Highs(df), Lows(df), Closes(df), period)
    IN  /\ ret' = Returned("calculate_atr", <<period>>, r.value)
        /\ raised' = r.raised
        /\ UNCHANGED <<parameters, daily_pnl, trades_today, open_positions,
                       settings, df, config>>

CalculateRsi(period) ==
    LET r == calculate_rsi(Closes(df), period)
    IN  /\ ret' = Returned("calculate_rsi", <<period>>, r.value)
        /\ raised' = r.raised
        /\ UNCHANGED <<parameters, daily_pnl, trades_today, open_positions,
                       settings, df, config>>

IndicatorsInit ==
    /\ EngineInit(DefaultRiskParameters)
    /\ heap = [o \in Objects |-> NoObject]
    /\ settings = [max_daily_trades |-> MaxDailyTrades]
    /\ df \in IndicatorWindows
    /\ config = get_default_config
    /\ HistoryIdle /\ WidgetIdle /\ ProposersIdle

IndicatorsNext ==
    \/ /\ \E period \in Periods : CalculateAtr(period)
       /\ UNCHANGED <<heap, historyVars, widgetVars, proposerVars>>
    \/ /\ \E period \in Periods : CalculateRsi(period)
       /\ UNCHANGED <<heap, historyVars, widgetVars, proposerVars>>

SpecIndicators == IndicatorsInit /\ [][IndicatorsNext]_vars

\* C22: for all equal-length high/low/close sequences with high >= low at
\* every index and every period >= 1, calculate_atr returns a sequence of the
\* same length whose every defined entry is >= 0.
C22_AtrNonNegative ==
    ret.call = "calculate_atr" =>
        /\ ~raised
        /\ Len(ret.value) = Len(df)
        /\ \A t \in 1..Len(df) : ~IsNaN(ret.value[t]) => ret.value[t] >= 0

\* C23: for every close sequence and period >= 1, every defined entry of
\* calculate_rsi lies in [0, 100], and an index where the average loss is
\* exactly 0 has an undefined entry.
C23_RsiRange ==
    ret.call = "calculate_rsi" =>
        \A t \in 1..Len(df) :
            /\ ~IsNaN(ret.value[t]) => (0 <= ret.value[t] /\ ret.value[t] <= 10000)
            /\ AvgLoss(Closes(df), ret.args[1], t) = 0 => IsNaN(ret.value[t])

----------------------------------------------------------------------------
(* SpecSignals: check_signals and _identify_order_blocks over well-formed
   candle windows (low <= open, close <= high at every bar): every window of
   at most MaxBars candles over three price levels with smc_period 1, and
   every window of LongBars candles over two with smc_period 1 and 2. *)

WellFormed(d) ==
    \A i \in 1..Len(d) :
        /\ d[i].low <= d[i].open /\ d[i].low <= d[i].close
        /\ d[i].open <= d[i].high /\ d[i].close <= d[i].high

LongBars == 5

TwoLevelCandles == {c \in BlockCandles : c.high <= 2}

SignalWindows == BlockWindows \cup [1..LongBars -> TwoLevelCandles]

\* smc_period 1 with smc_response 1, smc_period 2 with smc_response 2
SignalConfigs ==
    {[StrategyConfig EXCEPT !.smc_period = prd, !.smc_response = prd] : prd \in {1, 2}}

SignalsInit ==
    /\ EngineInit(DefaultRiskParameters)
    /\ heap = [o \in Objects |-> NoObject]
    /\ settings = [max_daily_trades |-> MaxDailyTrades]
    /\ df \in SignalWindows
    /\ config \in SignalConfigs
    \* a window of fewer than 2 * smc_period + 1 bars is returned None by the
    \* guards: smc_period 2 is paired with the windows of LongBars bars
    /\ config.smc_period = 2 => Len(df) = LongBars
    /\ HistoryIdle /\ WidgetIdle /\ ProposersIdle

SignalsNext ==
    \/ CheckSignals /\ UNCHANGED <<heap, historyVars, widgetVars, proposerVars>>
    \/ /\ \E lookback \in Lookbacks : IdentifyOrderBlocks(lookback)
       /\ UNCHANGED <<heap, historyVars, widgetVars, proposerVars>>

SpecSignals == SignalsInit /\ [][SignalsNext]_vars

\* C27: for every well-formed candle window and smc_period >= 1,
\* check_signals returns None: the centered pivot at the last index is absent
\* (no CHoCH), the last close neither exceeds the rolling maximum of highs nor
\* falls below the rolling minimum of lows (no SMS), and the order-block
\* marker at the last index is 0, a marker being written at index i-1 only.
C27_WellFormedNoSignal ==
    WellFormed(df) =>
        /\ ret.call = "check_signals" =>
              /\ ret.value = None
              /\ ~raised
              /\ HasEnoughBars(df, config) =>
                    /\ IsNaN(PivotHigh(Highs(df), config.smc_period, Len(df)))
                    /\ IsNaN(PivotLow(Lows(df), config.smc_period, Len(df)))
                    /\ df[Len(df)].close <= LastUp(df, config)
                    /\ df[Len(df)].close >= LastDn(df, config)
                    /\ calculate_indicators(df, config).order_blocks[1][Len(df)] = 0
        /\ (ret.call = "_identify_order_blocks" /\ Len(df) > 0) =>
              ret.value[Len(df)] = 0

\* C27 witness: five bars, smc_period 2, the last bar closing at its high above
\* every earlier high: still no signal
C27_Witness ==
    /\ ret.call = "check_signals"
    /\ config.smc_period = 2
    /\ Len(df) = 5
    /\ HasEnoughBars(df, config)
    /\ df[5].close = 2
    /\ df[5].open = 1
    /\ \A i \in 1..4 : df[i].high = 1
    /\ ret.value = None
============================================================================
